---- MODULE Spec2Model ----
(***************************************************************************)
(* Model of the batch start/stop orchestrator of anypoint-automation-utils *)
(* (src/anypointClient.js): the name filter buildAppNameFilter, the        *)
(* concurrent jobs.startMatching / jobs.stopMatching and their sequential  *)
(* variant, and the start-apps and stop-apps command scripts (src/jobs).   *)
(*                                                                         *)
(* Strings are sequences of one-character strings.  A field that is        *)
(* undefined, null or "" in JavaScript is the empty sequence: every place  *)
(* of the code that reads pattern, app.id, app.name or app.applicationName *)
(* reads it through `!x` or `x || y`, which treat the three alike.         *)
(***************************************************************************)
EXTENDS Integers, Sequences, FiniteSets, TLC

----------------------------------------------------------------------------
(* Bounds and input alphabets *)

MaxPatLen == 2
MaxNameLen == 2
MaxApps == 3
MaxWrapped == 1

\* Characters the enumerated patterns are built from.  The regular
\* expressions they lead to stay inside the subset RegExp models below.
PatAlphabet == {"a", "-", "*", ".", "$", "(", "?"}
NameAlphabet == {"a", "b", "-"}

RECURSIVE SeqsUpTo(_, _)
SeqsUpTo(S, n) ==
  IF n = 0 THEN {<<>>}
  ELSE LET shorter == SeqsUpTo(S, n - 1)
       IN shorter \cup {Append(s, c) : s \in shorter, c \in S}

\* Strings of the README and of the usage notes.
Str_eapi_star == <<"e", "a", "p", "i", "-", "*">>
Str_star_eapi_dev == <<"*", "e", "a", "p", "i", "-", "d", "e", "v">>
Str_eapi_dev == <<"e", "a", "p", "i", "-", "d", "e", "v">>
Str_eapi_prod == <<"e", "a", "p", "i", "-", "p", "r", "o", "d">>
Str_my_eapi_dev == <<"m", "y", "-">> \o Str_eapi_dev
Str_eapi_prod_2 == Str_eapi_prod \o <<"-", "2">>
Str_prod_regex == <<".", "*", "-", "p", "r", "o", "d", "$">>
Str_unclosed == <<"(", "u", "n", "c", "l", "o", "s", "e", "d">>

ExamplePatterns == {Str_eapi_star, Str_star_eapi_dev, Str_prod_regex, Str_unclosed, Str_eapi_dev}
ExampleNames == {Str_eapi_dev, Str_eapi_prod, Str_my_eapi_dev, Str_eapi_prod_2}

Patterns == SeqsUpTo(PatAlphabet, MaxPatLen) \cup ExamplePatterns
Names == SeqsUpTo(NameAlphabet, MaxNameLen) \cup ExampleNames

----------------------------------------------------------------------------
(* JavaScript truthiness and `||` on strings *)

Truthy(s) == s # <<>>

Or(a, b) == IF Truthy(a) THEN a ELSE b

----------------------------------------------------------------------------
(* RegExp: the subset of ECMAScript regular expressions (no flags) that   *)
(* buildAppNameFilter can produce from the patterns above: literal        *)
(* characters, identity escapes, `.`, the assertions ^ and $, the         *)
(* quantifiers * + ? (with an optional lazy `?`), and an opening          *)
(* parenthesis that is never closed.  The characters ) [ ] | { } occur in *)
(* no pattern of the model and their syntax is not modelled.              *)

Quantifiers == {"*", "+", "?"}

Term(kind, ch, quant) == [kind |-> kind, ch |-> ch, quant |-> quant]

SyntaxError == [error |-> TRUE, terms |-> <<>>]

\* new RegExp(source): the parsed pattern, or a SyntaxError.
\*   Term :: Assertion | Atom | Atom Quantifier
\* so a quantifier at the start, after ^ or $, or after another quantifier
\* has nothing to repeat; `(` without `)` is an unterminated group; a
\* trailing `\` is an error.
RECURSIVE RegExpParse(_)
RegExpParse(s) ==
  IF s = <<>> THEN [error |-> FALSE, terms |-> <<>>]
  ELSE
    LET c == Head(s)
        \* an atom of `n` source characters, then its optional quantifier
        Atom(kind, ch, n) ==
          LET hasQ == Len(s) > n /\ s[n + 1] \in Quantifiers
              lazy == hasQ /\ Len(s) > n + 1 /\ s[n + 2] = "?"
              q == IF ~hasQ THEN "1"
                   ELSE IF ~lazy THEN s[n + 1]
                   ELSE CASE s[n + 1] = "*" -> "*?"
                          [] s[n + 1] = "+" -> "+?"
                          [] OTHER -> "??"
              used == n + (IF hasQ THEN 1 ELSE 0) + (IF lazy THEN 1 ELSE 0)
              rest == RegExpParse(SubSeq(s, used + 1, Len(s)))
          IN IF rest.error THEN SyntaxError
             ELSE [error |-> FALSE, terms |-> <<Term(kind, ch, q)>> \o rest.terms]
        Assertion(kind) ==
          LET rest == RegExpParse(Tail(s))
          IN IF rest.error THEN SyntaxError
             ELSE [error |-> FALSE, terms |-> <<Term(kind, "", "1")>> \o rest.terms]
    IN CASE c \in Quantifiers -> SyntaxError
         [] c = "(" -> SyntaxError
         [] c = "^" -> Assertion("bol")
         [] c = "$" -> Assertion("eol")
         [] c = "\\" -> IF Len(s) < 2 THEN SyntaxError ELSE Atom("char", s[2], 2)
         [] c = "." -> Atom("any", "", 1)
         [] OTHER -> Atom("char", c, 1)

TermAccepts(t, ch) == t.kind = "any" \/ (t.kind = "char" /\ t.ch = ch)

\* Whether terms k.. of the parsed pattern match `str` from offset `pos`
\* (the number of characters before the match position).
RECURSIVE MatchFrom(_, _, _, _)
MatchFrom(terms, str, k, pos) ==
  IF k > Len(terms) THEN TRUE
  ELSE
    LET t == terms[k]
        eat == pos < Len(str) /\ TermAccepts(t, str[pos + 1])
    IN CASE t.kind = "bol" -> pos = 0 /\ MatchFrom(terms, str, k + 1, pos)
         [] t.kind = "eol" -> pos = Len(str) /\ MatchFrom(terms, str, k + 1, pos)
         [] t.quant = "1" -> eat /\ MatchFrom(terms, str, k + 1, pos + 1)
         [] t.quant \in {"?", "??"} -> \/ MatchFrom(terms, str, k + 1, pos)
                                       \/ eat /\ MatchFrom(terms, str, k + 1, pos + 1)
         [] t.quant \in {"*", "*?"} -> \/ MatchFrom(terms, str, k + 1, pos)
                                       \/ eat /\ MatchFrom(terms, str, k, pos + 1)
         [] OTHER -> eat /\ \/ MatchFrom(terms, str, k + 1, pos + 1)
                            \/ MatchFrom(terms, str, k, pos + 1)

\* RegExp.prototype.test without the g or y flag: a match starting anywhere.
RegExpTest(regex, str) ==
  \E start \in 0..Len(str) : MatchFrom(regex.terms, str, 1, start)

\* What MatchEnd gives when there is no match: below every offset.
NoMatch == 0 - 1

\* Where the match of terms k.. from offset `pos` ends, as the backtracking
\* matcher finds it (a greedy quantifier takes the longer alternative first,
\* a lazy one the shorter), or NoMatch.
RECURSIVE MatchEnd(_, _, _, _)
MatchEnd(terms, str, k, pos) ==
  IF k > Len(terms) THEN pos
  ELSE
    LET t == terms[k]
        eat == pos < Len(str) /\ TermAccepts(t, str[pos + 1])
        First(a, b) == IF a # NoMatch THEN a ELSE b
    IN CASE t.kind = "bol" -> IF pos = 0 THEN MatchEnd(terms, str, k + 1, pos) ELSE NoMatch
         [] t.kind = "eol" -> IF pos = Len(str) THEN MatchEnd(terms, str, k + 1, pos) ELSE NoMatch
         [] t.quant = "1" -> IF eat THEN MatchEnd(terms, str, k + 1, pos + 1) ELSE NoMatch
         [] t.quant = "?" -> First(IF eat THEN MatchEnd(terms, str, k + 1, pos + 1) ELSE NoMatch,
                                   MatchEnd(terms, str, k + 1, pos))
         [] t.quant = "??" -> First(MatchEnd(terms, str, k + 1, pos),
                                    IF eat THEN MatchEnd(terms, str, k + 1, pos + 1) ELSE NoMatch)
         [] t.quant = "*" -> First(IF eat THEN MatchEnd(terms, str, k, pos + 1) ELSE NoMatch,
                                   MatchEnd(terms, str, k + 1, pos))
         [] t.quant = "*?" -> First(MatchEnd(terms, str, k + 1, pos),
                                    IF eat THEN MatchEnd(terms, str, k, pos + 1) ELSE NoMatch)
         [] t.quant = "+" -> IF ~eat THEN NoMatch
                             ELSE First(MatchEnd(terms, str, k, pos + 1),
                                        MatchEnd(terms, str, k + 1, pos + 1))
         [] OTHER -> IF ~eat THEN NoMatch
                     ELSE First(MatchEnd(terms, str, k + 1, pos + 1),
                                MatchEnd(terms, str, k, pos + 1))

\* The RegExp object a filter closes over: the parsed pattern, whether it
\* has the g flag, and its lastIndex.
RegexFilter(regex, global) ==
  [kind |-> "regex", regex |-> regex, global |-> global, lastIndex |-> 0]

\* regex.test(str) on that object (RegExpBuiltinExec): the search starts at
\* lastIndex when the g flag is set and at 0 otherwise; with the g flag a
\* match leaves lastIndex at its end and a failure resets it to 0; without
\* it lastIndex is not written.
RegExpExec(f, str) ==
  LET from == IF f.global THEN f.lastIndex ELSE 0
      starts == {i \in from..Len(str) : MatchEnd(f.regex.terms, str, 1, i) # NoMatch}
  IN IF starts = {}
     THEN [matched |-> FALSE, lastIndex |-> IF f.global THEN 0 ELSE f.lastIndex]
     ELSE LET start == CHOOSE i \in starts : \A j \in starts : i <= j
          IN [matched |-> TRUE,
              lastIndex |-> IF f.global THEN MatchEnd(f.regex.terms, str, 1, start)
                            ELSE f.lastIndex]

----------------------------------------------------------------------------
(* buildAppNameFilter *)

RegexLikeChars == {"^", "$", "|", "+", "?", "(", ")", "[", "]", "\\"}

looksLikeRegex(pattern) == \E i \in 1..Len(pattern) : pattern[i] \in RegexLikeChars

EscapedChars == {"-", "/", "\\", "^", "$", "+", "?", ".", "(", ")", "|", "[", "]", "{", "}"}

\* pattern.replace(/[-/\\^$+?.()|[\]{}]/g, "\\$&")
RECURSIVE escaped(_)
escaped(pattern) ==
  IF pattern = <<>> THEN <<>>
  ELSE (IF Head(pattern) \in EscapedChars THEN <<"\\", Head(pattern)>> ELSE <<Head(pattern)>>)
       \o escaped(Tail(pattern))

\* s.replace(/\\c/g, to): every backslash followed by `c`, left to right.
RECURSIVE replaceBackslashed(_, _, _)
replaceBackslashed(s, c, to) ==
  IF Len(s) < 2 THEN s
  ELSE IF s[1] = "\\" /\ s[2] = c
       THEN to \o replaceBackslashed(SubSeq(s, 3, Len(s)), c, to)
       ELSE <<s[1]>> \o replaceBackslashed(Tail(s), c, to)

\* escaped.replace(/\\\*/g, ".*").replace(/\\\?/g, ".")
wildcard(pattern) ==
  replaceBackslashed(replaceBackslashed(escaped(pattern), "*", <<".", "*">>), "?", <<".">>)

\* Mutant of regexSource: the regex-like pattern is anchored as well.
regexSourceAnchored(pattern) ==
  IF looksLikeRegex(pattern) THEN <<"^">> \o pattern \o <<"$">>
  ELSE <<"^">> \o wildcard(pattern) \o <<"$">>

\* The source text handed to new RegExp.
regexSource(pattern) ==
  IF looksLikeRegex(pattern) THEN pattern
  ELSE <<"^">> \o wildcard(pattern) \o <<"$">>

\* Mutant of buildAppNameFilter: a pattern that does not compile is caught
\* and read as "match everything".
buildAppNameFilterMatchAll(pattern) ==
  IF ~Truthy(pattern) THEN [kind |-> "all"]
  ELSE LET regex == RegExpParse(regexSource(pattern))
       IN IF regex.error THEN [kind |-> "all"]
          ELSE RegexFilter(regex, FALSE)

\* Mutant of buildAppNameFilter: a pattern that does not compile is caught
\* and read as a filter that accepts nothing (/$^./).
buildAppNameFilterMatchNone(pattern) ==
  IF ~Truthy(pattern) THEN [kind |-> "all"]
  ELSE LET regex == RegExpParse(regexSource(pattern))
       IN IF regex.error THEN RegexFilter(RegExpParse(<<"$", "^", ".">>), FALSE)
          ELSE RegexFilter(regex, FALSE)

\* Mutant of buildAppNameFilter: the RegExp is created with the g flag.
buildAppNameFilterGlobal(pattern) ==
  IF ~Truthy(pattern) THEN [kind |-> "all"]
  ELSE LET regex == RegExpParse(regexSource(pattern))
       IN IF regex.error THEN [kind |-> "throws"]
          ELSE RegexFilter(regex, TRUE)

\* The filter buildAppNameFilter returns, or the exception it throws:
\*   [kind |-> "all"]                  () => true
\*   RegexFilter(r, FALSE)             (app) => regex.test(name), no flag
\*   [kind |-> "throws"]               new RegExp threw a SyntaxError
buildAppNameFilter(pattern) ==
  IF ~Truthy(pattern) THEN [kind |-> "all"]
  ELSE LET regex == RegExpParse(regexSource(pattern))
       IN IF regex.error THEN [kind |-> "throws"]
          ELSE RegexFilter(regex, FALSE)

\* The name the filter tests: app.name || app.applicationName || ""
filterName(app) == Or(app.name, Or(app.applicationName, <<>>))

\* filterFn(app)
filterFn(filter, app) ==
  IF filter.kind = "all" THEN TRUE
  ELSE RegExpExec(filter, filterName(app)).matched

\* The filter after filterFn(app) has run: regex.test may have written the
\* lastIndex of its RegExp.
afterTest(filter, app) ==
  IF filter.kind = "all" THEN filter
  ELSE [filter EXCEPT !.lastIndex = RegExpExec(filter, filterName(app)).lastIndex]

----------------------------------------------------------------------------
(* Inputs of a run *)

App(id, name, applicationName) == [id |-> id, name |-> name, applicationName |-> applicationName]

\* Application records the external tool can list.
Records ==
  { App(<<"1">>, <<"a">>, <<>>),
    App(<<"2">>, <<"b", "a">>, <<>>),
    App(<<"x">>, <<>>, <<>>),
    App(<<>>, <<"a">>, <<>>),
    App(<<"1">>, <<>>, <<"a", "a">>) }

RECURSIVE ListsUpTo(_, _)
ListsUpTo(S, n) ==
  IF n = 0 THEN {<<>>}
  ELSE LET shorter == ListsUpTo(S, n - 1)
       IN shorter \cup {Append(l, r) : l \in shorter, r \in S}

Inventories == ListsUpTo(Records, MaxApps)

\* The inventories enumerated inside an object, under `items` or `data`.
WrappedInventories == ListsUpTo(Records, MaxWrapped)

\* Values of the `pattern` option: none, globs, regex-like, invalid.
RunPatterns == {<<>>, <<"a">>, <<"x">>, <<"*">>, <<"a", "*">>, <<"a", "$">>, <<"(">>}

\* What the tool prints on a successful `runtime-mgr:application:list`:
\* JSON text (an array, or an object that may have `items` or `data`), or
\* text JSON.parse rejects.
JsValue(t, elems, hasItems, items, hasData, data) ==
  [t |-> t, elems |-> elems, hasItems |-> hasItems, items |-> items,
   hasData |-> hasData, data |-> data]

JsArray(l) == JsValue("array", l, FALSE, <<>>, FALSE, <<>>)
JsObject(hasItems, items, hasData, data) == JsValue("object", <<>>, hasItems, items, hasData, data)
JsString == JsValue("string", <<>>, FALSE, <<>>, FALSE, <<>>)
JsNull == JsValue("null", <<>>, FALSE, <<>>, FALSE, <<>>)

Stdout(parses, json) == [parses |-> parses, json |-> json]

Stdouts ==
  {Stdout(TRUE, JsArray(l)) : l \in Inventories}
    \cup {Stdout(TRUE, JsObject(TRUE, l, FALSE, <<>>)) : l \in WrappedInventories}
    \cup {Stdout(TRUE, JsObject(FALSE, <<>>, TRUE, l)) : l \in WrappedInventories}
    \cup {Stdout(TRUE, JsObject(FALSE, <<>>, FALSE, <<>>)), Stdout(FALSE, JsNull)}

----------------------------------------------------------------------------
(* cloudhub2.listApps and the head of startMatching / stopMatching *)

\* tryParseJson(stdout): JSON.parse, or null when it throws
tryParseJson(stdout) == IF stdout.parses THEN stdout.json ELSE JsNull

\* listApps: `json ?? stdout`, the raw text when the parse gave null
listApps(stdout) ==
  LET json == tryParseJson(stdout)
  IN IF json.t = "null" THEN JsString ELSE json

\* The list command as the run sees it: pending, rejected, or fulfilled with
\* the tool's output.
ListCmd(state, stdout) == [state |-> state, stdout |-> stdout]

ListPending == ListCmd("pending", Stdout(FALSE, JsNull))

ListOutcomes ==
  {ListCmd("rejected", Stdout(FALSE, JsNull))} \cup {ListCmd("fulfilled", o) : o \in Stdouts}

\* Mutant of awaitListApplications: a failed fetch is swallowed and read as
\* an empty inventory.
awaitListApplicationsSwallow(cmd) ==
  IF cmd.state = "rejected" THEN [throws |-> FALSE, apps |-> JsArray(<<>>)]
  ELSE [throws |-> FALSE, apps |-> listApps(cmd.stdout)]

\* `await this.listApplications()`: throws when runCli rejected, otherwise
\* gives what listApps returns.
awaitListApplications(cmd) ==
  IF cmd.state = "rejected" THEN [throws |-> TRUE, apps |-> JsNull]
  ELSE [throws |-> FALSE, apps |-> listApps(cmd.stdout)]

\* Array.isArray(apps) ? apps : apps.items || apps.data || []
listOf(apps) ==
  IF apps.t = "array" THEN apps.elems
  ELSE IF apps.hasItems THEN apps.items
  ELSE IF apps.hasData THEN apps.data
  ELSE <<>>

\* const name = app.name || app.applicationName || id
outcomeName(app) == Or(app.name, Or(app.applicationName, app.id))

VARIABLES
  run,       \* 1 for the first call of startMatching / stopMatching, 2 for the second
  prev       \* what the first call did, once the second has begun

\* Mutant of isCandidate: the `if (!id) continue` guard is missing.
isCandidateNoIdCheck(filter, app) == filterFn(filter, app)

\* The loop's two `continue` guards: the record is dispatched iff it passes both.
isCandidate(filter, app) == Truthy(app.id) /\ filterFn(filter, app)

----------------------------------------------------------------------------
(* State *)

VARIABLES
  op,        \* "start" (startMatching) or "stop" (stopMatching)
  pattern,   \* the `pattern` option of the call
  pc,        \* where the run is
  listCmd,   \* the list command: pending, rejected, or fulfilled with its output
  apps,      \* what listApplications resolved to
  list,      \* the `list` local
  filter,    \* the `filterFn` local
  idx,       \* position of the for loop in `list`
  tasks,     \* the `tasks` local, with the state of each command
  cliCalls,  \* the runCli invocations so far, in order
  result,    \* how the run ended: nothing yet, a summary, or a thrown error
  fPattern,  \* filter check: the pattern given to buildAppNameFilter
  fApp,      \* filter check: the record given to the filter
  fFilter,   \* filter check: what buildAppNameFilter returned
  fAccepts,  \* filter check: what the filter returned
  fPc,       \* filter check: "init", "built", "threw" or "tested"
  settleOrder, \* positions in `tasks` of the settled commands, in settlement order
  variant,   \* which anypointClient.js runs: "concurrent" or "sequential"
  matched,   \* sequential variant: the `matched` local
  failures,  \* sequential variant: the `failures` local
  inFlight,  \* sequential variant: the command being awaited, if any
  command,   \* the npm command: "stop-apps", "start-apps", "list-apps", or "none" for a direct call
  script,    \* the file that command runs, or "none"
  argv,      \* process.argv.slice(2)
  exited,    \* whether the process has ended
  exitCode,  \* its exit code
  printed    \* the summary main printed, if any

runVars == <<op, pattern, pc, listCmd, apps, list, filter, idx, tasks, cliCalls, result>>
filterVars == <<fPattern, fApp, fFilter, fAccepts, fPc>>
seqVars == <<variant, matched, failures, inFlight>>
sessionVars == <<run, prev>>
cliVars == <<command, script, argv, exited, exitCode, printed>>
vars == <<op, pattern, pc, listCmd, apps, list, filter, idx, tasks, cliCalls, result,
          fPattern, fApp, fFilter, fAccepts, fPc, settleOrder,
          variant, matched, failures, inFlight, run, prev,
          command, script, argv, exited, exitCode, printed>>

----------------------------------------------------------------------------
(* The tasks and Promise.all *)

\* One pushed task: the command promise it awaits is pending, fulfilled or rejected.
Task(id, name, cmd) == [id |-> id, name |-> name, cmd |-> cmd]

\* Mutant of taskPromise: the wrapper without its try/catch, so a failed
\* command rejects the wrapper.
taskPromiseNoCatch(task) ==
  IF task.cmd = "pending" THEN [state |-> "pending", id |-> task.id, name |-> task.name, status |-> "none"]
  ELSE [state |-> task.cmd, id |-> task.id, name |-> task.name, status |-> task.cmd]

\* The promise of the async wrapper pushed to `tasks`: try/catch turns the
\* command's rejection into a value, so the wrapper never rejects.
taskPromise(task) ==
  IF task.cmd = "pending" THEN [state |-> "pending", id |-> task.id, name |-> task.name, status |-> "none"]
  ELSE [state |-> "fulfilled", id |-> task.id, name |-> task.name, status |-> task.cmd]

\* Mutant of PromiseAll: Promise.race-like, settled as soon as one input is,
\* with the values settled so far.
PromiseRace(ts) ==
  LET ps == [k \in 1..Len(ts) |-> taskPromise(ts[k])]
      IsSettled(p) == p.state # "pending"
  IN IF \E k \in 1..Len(ps) : ps[k].state = "rejected" THEN [state |-> "rejected", values |-> <<>>]
     ELSE IF \A k \in 1..Len(ps) : ps[k].state = "pending" THEN [state |-> "pending", values |-> <<>>]
     ELSE [state |-> "fulfilled", values |-> SelectSeq(ps, IsSettled)]

\* Mutant of PromiseAll: the values in the order the inputs settled.
PromiseAllSettleOrder(ts) ==
  LET ps == [k \in 1..Len(ts) |-> taskPromise(ts[k])]
  IN IF \E k \in 1..Len(ps) : ps[k].state = "rejected" THEN [state |-> "rejected", values |-> <<>>]
     ELSE IF \E k \in 1..Len(ps) : ps[k].state = "pending" THEN [state |-> "pending", values |-> <<>>]
     ELSE [state |-> "fulfilled", values |-> [k \in 1..Len(settleOrder) |-> ps[settleOrder[k]]]]

\* Mutant of PromiseAll: a completion counter that fires on a completion, so
\* with no input at all it never settles.
PromiseAllHangsOnEmpty(ts) ==
  LET ps == [k \in 1..Len(ts) |-> taskPromise(ts[k])]
  IN IF \E k \in 1..Len(ps) : ps[k].state = "rejected" THEN [state |-> "rejected", values |-> <<>>]
     ELSE IF ts = <<>> \/ \E k \in 1..Len(ps) : ps[k].state = "pending" THEN [state |-> "pending", values |-> <<>>]
     ELSE [state |-> "fulfilled", values |-> ps]

\* Promise.all(tasks): rejected as soon as one input is rejected, fulfilled
\* (with the values in input order) once all are fulfilled.
PromiseAll(ts) ==
  LET ps == [k \in 1..Len(ts) |-> taskPromise(ts[k])]
  IN IF \E k \in 1..Len(ps) : ps[k].state = "rejected" THEN [state |-> "rejected", values |-> <<>>]
     ELSE IF \E k \in 1..Len(ps) : ps[k].state = "pending" THEN [state |-> "pending", values |-> <<>>]
     ELSE [state |-> "fulfilled", values |-> ps]

IsFulfilled(r) == r.status = "fulfilled"
IsRejected(r) == r.status = "rejected"

Outcome(r) == [id |-> r.id, name |-> r.name, status |-> r.status]

Outcomes(rs) == [k \in 1..Len(rs) |-> Outcome(rs[k])]

NoResult == [kind |-> "none", error |-> "", total |-> 0, matched |-> 0, successes |-> <<>>, failures |-> <<>>]

Thrown(error) == [NoResult EXCEPT !.kind = "error", !.error = error]

\* Mutant of Summary: one outcome per id, the first one.
RECURSIVE FirstById(_, _)
FirstById(rs, seen) ==
  IF rs = <<>> THEN <<>>
  ELSE IF Head(rs).id \in seen THEN FirstById(Tail(rs), seen)
       ELSE <<Head(rs)>> \o FirstById(Tail(rs), seen \cup {Head(rs).id})

SummaryById(l, results) ==
  LET unique == FirstById(results, {})
  IN [kind |-> "summary", error |-> "", total |-> Len(l), matched |-> Len(unique),
      successes |-> Outcomes(SelectSeq(unique, IsFulfilled)),
      failures |-> Outcomes(SelectSeq(unique, IsRejected))]

\* The object startMatching / stopMatching returns.
Summary(l, results) ==
  [kind |-> "summary", error |-> "", total |-> Len(l), matched |-> Len(results),
   successes |-> Outcomes(SelectSeq(results, IsFulfilled)),
   failures |-> Outcomes(SelectSeq(results, IsRejected))]

Unset == [kind |-> "unset"]

\* Mutant of commandMaySettle: a command's completion is handled as soon as
\* it has been dispatched, between two iterations of the loop.
commandMaySettleInLoop(at) == at \in {"loop", "awaitAll"}

\* When the close/error callback of a dispatched command can run.  The for
\* loop holds no await and each pushed async wrapper runs synchronously up to
\* its own first await, so the event loop gets the turn that runs a child
\* process callback only at `await Promise.all(tasks)`.
commandMaySettle(at) == at = "awaitAll"

CliCall(cmd, appId) == [cmd |-> cmd, appId |-> appId]

FilterIdle ==
  /\ fPattern = <<>>
  /\ fApp = App(<<>>, <<>>, <<>>)
  /\ fFilter = Unset
  /\ fAccepts = FALSE
  /\ fPc = "idle"

\* Sequential variant: no command is being awaited.
NoCommand == Task(<<>>, <<>>, "none")

\* What is kept of the first call: the list command's outcome, the
\* start/stop commands it issued, its tasks and what it returned.
Prev(cmd, calls, ts, res) == [listCmd |-> cmd, cliCalls |-> calls, tasks |-> ts, result |-> res]

NoPrev == Prev(ListPending, <<>>, <<>>, NoResult)

\* What the list command can settle to: anything on a first call; on a
\* second call the inventory is the same, so the same as on the first.
InventoryReplies == IF run = 1 THEN ListOutcomes ELSE {prev.listCmd}

\* The concurrent variant, called once and directly (not from a command).
Standalone ==
  /\ variant = "concurrent"
  /\ matched = 0
  /\ failures = <<>>
  /\ inFlight = NoCommand
  /\ run = 1
  /\ prev = NoPrev
  /\ command = "none"
  /\ script = "none"
  /\ argv = <<>>
  /\ exited = FALSE
  /\ exitCode = 0
  /\ printed = NoResult

RunIdle ==
  /\ op = "start"
  /\ pattern = <<>>
  /\ pc = "idle"
  /\ listCmd = ListPending
  /\ apps = JsNull
  /\ list = <<>>
  /\ filter = Unset
  /\ idx = 0
  /\ tasks = <<>>
  /\ cliCalls = <<>>
  /\ result = NoResult
  /\ settleOrder = <<>>
  /\ Standalone

----------------------------------------------------------------------------
(* A run of jobs.startMatching / jobs.stopMatching *)

Init ==
  /\ op \in {"start", "stop"}
  /\ pattern \in RunPatterns
  /\ pc = "call"
  /\ listCmd = ListPending
  /\ apps = JsNull
  /\ list = <<>>
  /\ filter = Unset
  /\ idx = 0
  /\ tasks = <<>>
  /\ cliCalls = <<>>
  /\ result = NoResult
  /\ settleOrder = <<>>
  /\ Standalone
  /\ FilterIdle

\* `await this.listApplications()`: runCli is called with the list command.
CallListApplications ==
  /\ pc = "call"
  /\ cliCalls' = Append(cliCalls, CliCall("list", <<>>))
  /\ pc' = "awaitList"
  /\ UNCHANGED <<op, pattern, listCmd, apps, list, filter, idx, tasks, result>>
  /\ UNCHANGED <<filterVars, settleOrder, seqVars, sessionVars, cliVars>>

\* The list command settles.  runCli rejects (no bearer token, spawn error,
\* non-zero exit): the await throws and the run rejects with that error.
\* runCli resolves with the tool's output: `apps` and `list` are computed.
ListSettles ==
  /\ pc = "awaitList"
  /\ \E cmd \in InventoryReplies :
       /\ listCmd' = cmd
       /\ LET r == awaitListApplications(cmd)
          IN IF r.throws
             THEN /\ pc' = "aborted"
                  /\ result' = Thrown("fetch")
                  /\ UNCHANGED <<apps, list>>
             ELSE /\ pc' = "compile"
                  /\ apps' = r.apps
                  /\ list' = listOf(r.apps)
                  /\ UNCHANGED result
  /\ UNCHANGED <<op, pattern, filter, idx, tasks, cliCalls>>
  /\ UNCHANGED <<filterVars, settleOrder, seqVars, sessionVars, cliVars>>

\* const filterFn = buildAppNameFilter(pattern): a SyntaxError ends the run;
\* otherwise `const tasks = []` and the loop begins.
Compile ==
  /\ pc = "compile"
  /\ LET f == buildAppNameFilter(pattern)
     IN IF f.kind = "throws"
        THEN /\ pc' = "aborted"
             /\ result' = Thrown("syntax")
             /\ UNCHANGED <<filter, idx, tasks>>
        ELSE /\ pc' = "loop"
             /\ filter' = f
             /\ tasks' = <<>>
             /\ idx' = 1
             /\ UNCHANGED result
  /\ UNCHANGED <<op, pattern, listCmd, apps, list, cliCalls>>
  /\ UNCHANGED <<filterVars, settleOrder, seqVars, sessionVars, cliVars>>

\* One iteration of `for (const app of list)`: skip, or push the task, whose
\* body runs at once up to its await, that is, calls runCli.
LoopStep ==
  /\ variant = "concurrent"
  /\ pc = "loop"
  /\ idx <= Len(list)
  /\ LET app == list[idx]
     IN /\ IF isCandidate(filter, app)
           THEN /\ tasks' = Append(tasks, Task(app.id, outcomeName(app), "pending"))
                /\ cliCalls' = Append(cliCalls, CliCall(op, app.id))
           ELSE UNCHANGED <<tasks, cliCalls>>
        /\ filter' = IF Truthy(app.id) THEN afterTest(filter, app) ELSE filter
  /\ idx' = idx + 1
  /\ UNCHANGED <<op, pattern, pc, listCmd, apps, list, result>>
  /\ UNCHANGED <<filterVars, settleOrder, seqVars, sessionVars, cliVars>>

\* The loop is over: `await Promise.all(tasks)`.
CallPromiseAll ==
  /\ variant = "concurrent"
  /\ pc = "loop"
  /\ idx > Len(list)
  /\ pc' = "awaitAll"
  /\ UNCHANGED <<op, pattern, listCmd, apps, list, filter, idx, tasks, cliCalls, result>>
  /\ UNCHANGED <<filterVars, settleOrder, seqVars, sessionVars, cliVars>>

\* One command settles.
Settle ==
  /\ commandMaySettle(pc)
  /\ \E k \in 1..Len(tasks), outcome \in {"fulfilled", "rejected"} :
       /\ tasks[k].cmd = "pending"
       /\ tasks' = [tasks EXCEPT ![k].cmd = outcome]
       /\ settleOrder' = Append(settleOrder, k)
  /\ UNCHANGED <<op, pattern, pc, listCmd, apps, list, filter, idx, cliCalls, result>>
  /\ UNCHANGED <<filterVars, seqVars, sessionVars, cliVars>>

\* Promise.all settles and the function returns the summary (or rethrows).
Return ==
  /\ pc = "awaitAll"
  /\ LET all == PromiseAll(tasks)
     IN /\ all.state # "pending"
        /\ IF all.state = "rejected"
           THEN /\ pc' = "aborted"
                /\ result' = Thrown("command")
           ELSE /\ pc' = "completed"
                /\ result' = Summary(list, all.values)
  /\ UNCHANGED <<op, pattern, listCmd, apps, list, filter, idx, tasks, cliCalls>>
  /\ UNCHANGED <<filterVars, settleOrder, seqVars, sessionVars, cliVars>>

Next ==
  \/ CallListApplications
  \/ ListSettles
  \/ Compile
  \/ LoopStep
  \/ CallPromiseAll
  \/ Settle
  \/ Return

Spec == Init /\ [][Next]_vars

\* The steps startMatching / stopMatching takes by itself.
ProgramStep ==
  \/ CallListApplications
  \/ Compile
  \/ LoopStep
  \/ CallPromiseAll
  \/ Return

\* A run in which the JavaScript runtime keeps running the function, and the
\* list command and every dispatched command eventually settle (runCli's
\* child process closes or fails to spawn).
LiveSpec ==
  /\ Init
  /\ [][Next]_vars
  /\ WF_vars(ProgramStep)
  /\ WF_vars(ListSettles)
  /\ WF_vars(Settle)

----------------------------------------------------------------------------
(* Two calls in a row, same inventory and same pattern *)

\* The first call has ended and the function is called again with the same
\* options.  The second call gives its locals (apps, list, filterFn, tasks,
\* the loop position) their values itself, at their declarations: until then
\* they hold what the first call left, so that a second call that read any
\* of it would show.  The record of the first call's commands is kept in
\* `prev`, and the records of commands and completions start again.
Rerun ==
  /\ command = "none"
  /\ variant = "concurrent"
  /\ run = 1
  /\ pc \in {"completed", "aborted"}
  /\ run' = 2
  /\ prev' = Prev(listCmd, SelectSeq(cliCalls, LAMBDA c : c.cmd # "list"), <<>>, NoResult)
  /\ pc' = "call"
  /\ listCmd' = ListPending
  /\ cliCalls' = <<>>
  /\ result' = NoResult
  /\ settleOrder' = <<>>
  /\ UNCHANGED <<op, pattern, apps, list, filter, idx, tasks>>
  /\ UNCHANGED <<filterVars, seqVars, cliVars>>

TwiceNext ==
  \/ Rerun
  \/ Next

TwiceSpec == Init /\ [][TwiceNext]_vars

----------------------------------------------------------------------------
(* The sequential variant of startMatching / stopMatching, run after the
   concurrent one on the same inventory, pattern and command outcomes *)

\* The failure record of the sequential variant: { id, name, error: e.message }
Failure(task) == [id |-> task.id, name |-> task.name, error |-> "rejected"]

\* Mutant of afterCommand: the failure is put in front (unshift).
afterCommandUnshift(fs, task, outcome) ==
  IF outcome = "rejected" THEN <<Failure(task)>> \o fs ELSE fs

\* try { await startAppById(id) } catch (e) { failures.push(...) }
afterCommand(fs, task, outcome) ==
  IF outcome = "rejected" THEN Append(fs, Failure(task)) ELSE fs

\* The object the sequential variant returns: { total, matched, failures }
SeqSummary(l, m, fs) ==
  [kind |-> "summary", error |-> "", total |-> Len(l), matched |-> m, failures |-> fs]

\* What the k-th command of the call can settle to: what the k-th command of
\* the concurrent call settled to, for the comparison of the two.
CommandOutcomes(k) ==
  IF run = 2 /\ k <= Len(prev.tasks) THEN {prev.tasks[k].cmd} ELSE {"fulfilled", "rejected"}

\* The concurrent call has ended; the sequential variant is called with the
\* same options.
CallSequential ==
  /\ command = "none"
  /\ variant = "concurrent"
  /\ run = 1
  /\ pc \in {"completed", "aborted"}
  /\ variant' = "sequential"
  /\ run' = 2
  /\ prev' = Prev(listCmd, SelectSeq(cliCalls, LAMBDA c : c.cmd # "list"), tasks, result)
  /\ pc' = "call"
  /\ listCmd' = ListPending
  /\ apps' = JsNull
  /\ list' = <<>>
  /\ filter' = Unset
  /\ idx' = 0
  /\ tasks' = <<>>
  /\ cliCalls' = <<>>
  /\ result' = NoResult
  /\ settleOrder' = <<>>
  /\ UNCHANGED <<op, pattern, matched, failures, inFlight>>
  /\ UNCHANGED <<filterVars, cliVars>>

\* One iteration of the sequential loop up to its await: skip the record, or
\* count it, issue its command and wait for it.
SeqLoopStep ==
  /\ variant = "sequential"
  /\ pc = "loop"
  /\ idx <= Len(list)
  /\ LET app == list[idx]
     IN /\ IF isCandidate(filter, app)
           THEN /\ matched' = matched + 1
                /\ cliCalls' = Append(cliCalls, CliCall(op, app.id))
                /\ inFlight' = Task(app.id, outcomeName(app), "pending")
                /\ pc' = "awaitCmd"
           ELSE UNCHANGED <<matched, cliCalls, inFlight, pc>>
        /\ filter' = IF Truthy(app.id) THEN afterTest(filter, app) ELSE filter
  /\ idx' = idx + 1
  /\ UNCHANGED <<op, pattern, listCmd, apps, list, tasks, result>>
  /\ UNCHANGED <<filterVars, settleOrder, variant, failures, sessionVars, cliVars>>

\* The awaited command settles: a rejection is caught and recorded, and the
\* loop goes on.
SeqSettle ==
  /\ variant = "sequential"
  /\ pc = "awaitCmd"
  /\ \E outcome \in CommandOutcomes(matched) :
       failures' = afterCommand(failures, inFlight, outcome)
  /\ inFlight' = NoCommand
  /\ settleOrder' = Append(settleOrder, matched)
  /\ pc' = "loop"
  /\ UNCHANGED <<op, pattern, listCmd, apps, list, filter, idx, tasks, cliCalls, result>>
  /\ UNCHANGED <<filterVars, variant, matched, sessionVars, cliVars>>

\* The loop is over: return { total, matched, failures }.
SeqReturn ==
  /\ variant = "sequential"
  /\ pc = "loop"
  /\ idx > Len(list)
  /\ pc' = "completed"
  /\ result' = SeqSummary(list, matched, failures)
  /\ UNCHANGED <<op, pattern, listCmd, apps, list, filter, idx, tasks, cliCalls>>
  /\ UNCHANGED <<filterVars, settleOrder, seqVars, sessionVars, cliVars>>

PairNext ==
  \/ CallSequential
  \/ SeqLoopStep
  \/ SeqSettle
  \/ SeqReturn
  \/ Next

PairSpec == Init /\ [][PairNext]_vars

----------------------------------------------------------------------------
(* The commands: stop-apps (parseArgs, main) and start-apps (module load) *)

AppFlag == <<"-", "-", "a", "p", "p">>

Str_undefined == <<"u", "n", "d", "e", "f", "i", "n", "e", "d">>

\* Command lines: no argument, the flag alone, the flag with an empty value,
\* with a value, with a value and then alone, a stray argument.
Argvs ==
  { <<>>,
    <<AppFlag>>,
    <<AppFlag, <<>>>>,
    <<AppFlag, <<"a">>>>,
    <<AppFlag, <<"(">>>>,
    <<AppFlag, <<"a">>, AppFlag>>,
    <<AppFlag, <<>>, <<"a">>>>,
    <<<<"a">>>> }

\* The for loop of parseArgs from index i (1-based) on.
RECURSIVE parseArgsFrom(_, _, _)
parseArgsFrom(args, i, pat) ==
  IF i > Len(args) THEN pat
  ELSE IF args[i] = AppFlag /\ i + 1 <= Len(args) /\ Truthy(args[i + 1])
       THEN parseArgsFrom(args, i + 2, args[i + 1])
       ELSE parseArgsFrom(args, i + 1, pat)

\* Mutant of parseArgs: the flag takes whatever follows it, as text, so a
\* missing value becomes the pattern "undefined".
RECURSIVE parseArgsTextFrom(_, _, _)
parseArgsTextFrom(args, i, pat) ==
  IF i > Len(args) THEN pat
  ELSE IF args[i] = AppFlag
       THEN parseArgsTextFrom(args, i + 2,
                              IF i + 1 <= Len(args) /\ Truthy(args[i + 1]) THEN args[i + 1] ELSE Str_undefined)
       ELSE parseArgsTextFrom(args, i + 1, pat)

parseArgsText(args) == [pattern |-> parseArgsTextFrom(args, 1, <<>>)]

\* parseArgs(): `pattern` starts null
parseArgs(args) == [pattern |-> parseArgsFrom(args, 1, <<>>)]

\* Mutant of exitCodeOf: a summary that holds failures also exits 1.
exitCodeOfFailures(res) ==
  IF res.kind = "error" \/ res.failures # <<>> THEN 1 ELSE 0

\* main().catch(... process.exit(1)): 1 when main rejected, otherwise the
\* process ends normally with 0.
exitCodeOf(res) == IF res.kind = "error" THEN 1 ELSE 0

\* The command scripts: src/jobs/stopAllApps.js comes in two versions, the
\* one with parseArgs and jobs.stopMatching and the one with jobs.stopAll.
StopAppsMatching == "unnamed/part_001"
StopAppsAll == "src/jobs/stopAllApps.js"
StartApps == "src/jobs/startAllApps.js"
ListApps == "src/jobs/listApps.js"

Scripts ==
  { <<"stop-apps", StopAppsMatching>>,
    <<"stop-apps", StopAppsAll>>,
    <<"start-apps", StartApps>>,
    <<"list-apps", ListApps>> }

\* What main of listApps.js ends with when the list command succeeded.
Listed == [NoResult EXCEPT !.kind = "listed"]

CliInit ==
  /\ \E s \in Scripts :
       /\ command = s[1]
       /\ script = s[2]
  /\ argv \in Argvs
  /\ op = CASE command = "stop-apps" -> "stop"
            [] command = "start-apps" -> "start"
            [] OTHER -> "none"
  /\ pattern = <<>>
  /\ pc = IF script = StartApps THEN "load" ELSE "main"
  /\ listCmd = ListPending
  /\ apps = JsNull
  /\ list = <<>>
  /\ filter = Unset
  /\ idx = 0
  /\ tasks = <<>>
  /\ cliCalls = <<>>
  /\ result = NoResult
  /\ settleOrder = <<>>
  /\ variant \in {"concurrent", "sequential"}
  /\ matched = 0
  /\ failures = <<>>
  /\ inFlight = NoCommand
  /\ run = 1
  /\ prev = NoPrev
  /\ exited = FALSE
  /\ exitCode = 0
  /\ printed = NoResult
  /\ FilterIdle

\* stop-apps, the version with parseArgs: main reads the pattern and calls
\* jobs.stopMatching({ pattern }), of either variant of anypointClient.js.
StopAppsMain ==
  /\ script = StopAppsMatching
  /\ pc = "main"
  /\ pattern' = parseArgs(argv).pattern
  /\ pc' = "call"
  /\ UNCHANGED <<op, listCmd, apps, list, filter, idx, tasks, cliCalls, result>>
  /\ UNCHANGED <<filterVars, settleOrder, seqVars, sessionVars, cliVars>>

\* stop-apps, the version at src/jobs/stopAllApps.js: main does not read the
\* command line; it builds a fixed predicate and calls
\* jobs.stopAll({ filterFn }).  `jobs` has the members listApplications,
\* startMatching and stopMatching only, in both variants, so the call throws
\* a TypeError and main rejects before anything is fetched.
StopAllMain ==
  /\ script = StopAppsAll
  /\ pc = "main"
  /\ pc' = "aborted"
  /\ result' = Thrown("type")
  /\ UNCHANGED <<op, pattern, listCmd, apps, list, filter, idx, tasks, cliCalls>>
  /\ UNCHANGED <<filterVars, settleOrder, seqVars, sessionVars, cliVars>>

\* list-apps: main calls jobs.listApplications(), which issues the list
\* command.
ListAppsMain ==
  /\ script = ListApps
  /\ pc = "main"
  /\ cliCalls' = Append(cliCalls, CliCall("list", <<>>))
  /\ pc' = "awaitApps"
  /\ UNCHANGED <<op, pattern, listCmd, apps, list, filter, idx, tasks, result>>
  /\ UNCHANGED <<filterVars, settleOrder, seqVars, sessionVars, cliVars>>

\* list-apps: the list command settles; main rejects with its error, or has
\* the applications to print.
ListAppsSettles ==
  /\ script = ListApps
  /\ pc = "awaitApps"
  /\ \E cmd \in InventoryReplies :
       /\ listCmd' = cmd
       /\ LET r == awaitListApplications(cmd)
          IN IF r.throws
             THEN /\ pc' = "aborted"
                  /\ result' = Thrown("fetch")
                  /\ UNCHANGED apps
             ELSE /\ pc' = "completed"
                  /\ apps' = r.apps
                  /\ result' = Listed
  /\ UNCHANGED <<op, pattern, list, filter, idx, tasks, cliCalls>>
  /\ UNCHANGED <<filterVars, settleOrder, seqVars, sessionVars, cliVars>>

\* start-apps: the file does not load.  After main().catch(...) it goes on
\* with pasted notes (line 22, `# Project srouce tree:`, to the end), which
\* are not JavaScript: the module is rejected with a SyntaxError when it is
\* parsed, before any statement of it runs.  main is never entered, nothing
\* is printed, no command is invoked, and the process exits with 1.
StartAppsLoad ==
  /\ script = StartApps
  /\ pc = "load"
  /\ pc' = "loadFailed"
  /\ result' = Thrown("load")
  /\ exited' = TRUE
  /\ exitCode' = 1
  /\ UNCHANGED <<op, pattern, listCmd, apps, list, filter, idx, tasks, cliCalls>>
  /\ UNCHANGED <<command, script, argv, printed>>
  /\ UNCHANGED <<filterVars, settleOrder, seqVars, sessionVars>>

\* main settles: it prints the summary (stop-apps) or the applications
\* (list-apps) and the process ends, or its rejection reaches main().catch,
\* which exits with 1.  The banner main prints first is not tracked.
MainSettles ==
  /\ command # "none"
  /\ pc \in {"completed", "aborted"}
  /\ ~exited
  /\ exited' = TRUE
  /\ exitCode' = exitCodeOf(result)
  /\ printed' = IF result.kind = "summary" THEN result ELSE NoResult
  /\ UNCHANGED <<command, script, argv>>
  /\ UNCHANGED <<runVars, filterVars, settleOrder, seqVars, sessionVars>>

CliNext ==
  \/ StopAppsMain
  \/ StopAllMain
  \/ ListAppsMain
  \/ ListAppsSettles
  \/ StartAppsLoad
  \/ MainSettles
  \/ SeqLoopStep
  \/ SeqSettle
  \/ SeqReturn
  \/ Next

CliSpec == CliInit /\ [][CliNext]_vars

----------------------------------------------------------------------------
(* buildAppNameFilter on its own: build the filter, then apply it *)

FilterApps ==
  {App(<<"1">>, n, <<>>) : n \in Names} \cup {App(<<"1">>, <<>>, n) : n \in Names}

FilterInit ==
  /\ fPattern \in Patterns
  /\ fApp \in FilterApps
  /\ fFilter = Unset
  /\ fAccepts = FALSE
  /\ fPc = "init"
  /\ RunIdle

BuildFilter ==
  /\ fPc = "init"
  /\ fFilter' = buildAppNameFilter(fPattern)
  /\ fPc' = IF buildAppNameFilter(fPattern).kind = "throws" THEN "threw" ELSE "built"
  /\ UNCHANGED <<fPattern, fApp, fAccepts>>
  /\ UNCHANGED <<runVars, settleOrder, seqVars, sessionVars, cliVars>>

ApplyFilter ==
  /\ fPc = "built"
  /\ fAccepts' = filterFn(fFilter, fApp)
  /\ fFilter' = afterTest(fFilter, fApp)
  /\ fPc' = "tested"
  /\ UNCHANGED <<fPattern, fApp>>
  /\ UNCHANGED <<runVars, settleOrder, seqVars, sessionVars, cliVars>>

FilterNext == BuildFilter \/ ApplyFilter

FilterSpec == FilterInit /\ [][FilterNext]_vars

----------------------------------------------------------------------------
(* Vocabulary of the properties *)

IsLifecycleCall(c) == c.cmd # "list"

\* The start/stop commands invoked so far, in order.
LifecycleCalls == SelectSeq(cliCalls, IsLifecycleCall)

CmdRejected(t) == t.cmd = "rejected"
CmdFulfilled(t) == t.cmd = "fulfilled"

\* The outcome a summary must hold for a settled task.
OutcomeOf(t) == [id |-> t.id, name |-> t.name, status |-> t.cmd]

OutcomesOf(ts) == [k \in 1..Len(ts) |-> OutcomeOf(ts[k])]

\* The positions of `list` that are candidates: the record has an id and
\* the compiled filter accepts it.
CandidateIdx == {i \in 1..Len(list) : Truthy(list[i].id) /\ filterFn(filter, list[i])}

Terminal == pc \in {"completed", "aborted"}

\* The positions of `list` whose record has no id.
NoIdIdx == {i \in 1..Len(list) : ~Truthy(list[i].id)}

\* A glob as the usage notes describe it: `*` stands for any run of
\* characters, every other character for itself, over the whole name.
RECURSIVE GlobMatches(_, _)
GlobMatches(glob, name) ==
  IF glob = <<>> THEN name = <<>>
  ELSE IF Head(glob) = "*"
       THEN \/ GlobMatches(Tail(glob), name)
            \/ name # <<>> /\ GlobMatches(glob, Tail(name))
       ELSE name # <<>> /\ Head(name) = Head(glob) /\ GlobMatches(Tail(glob), Tail(name))

IsGlob(p) == Truthy(p) /\ ~looksLikeRegex(p)

\* A regex-like pattern new RegExp rejects.
InvalidRegexLike(p) == looksLikeRegex(p) /\ RegExpParse(p).error

\* A pattern whose compilation fails, on either path.
DoesNotCompile(p) == Truthy(p) /\ RegExpParse(regexSource(p)).error

----------------------------------------------------------------------------
(* C1..C10 *)

\* C1: whatever subset of the candidates' commands fails, the run does not
\* raise: once a command has been dispatched the run never aborts, and the
\* summary it returns has matched = the number of candidates, failures = the
\* outcomes of exactly the candidates whose command failed, and successes =
\* the outcomes of exactly the others.
C1_PartialFailureSummary ==
  /\ tasks # <<>> => pc # "aborted"
  /\ pc = "aborted" => result.error \in {"fetch", "syntax"}
  /\ pc = "completed" =>
       /\ result.kind = "summary"
       /\ result.matched = Cardinality(CandidateIdx)
       /\ result.matched = Len(tasks)
       /\ result.failures = OutcomesOf(SelectSeq(tasks, CmdRejected))
       /\ result.successes = OutcomesOf(SelectSeq(tasks, CmdFulfilled))

\* C1 witness: a completed run with three candidates whose first and third
\* commands failed and whose second succeeded.
C1_Witness ==
  /\ pc = "completed"
  /\ Len(tasks) = 3
  /\ tasks[1].cmd = "rejected" /\ tasks[2].cmd = "fulfilled" /\ tasks[3].cmd = "rejected"
  /\ result.matched = 3
  /\ Len(result.failures) = 2
  /\ Len(result.successes) = 1

\* C2: when the inventory fetch fails the run fails with that error, there
\* is no summary, and no start/stop command is invoked.
C2_FetchFailureAborts ==
  listCmd.state = "rejected" =>
    /\ pc = "aborted"
    /\ result = Thrown("fetch")
    /\ LifecycleCalls = <<>>
    /\ tasks = <<>>

\* C2 witness: the list command was invoked and rejected.
C2_Witness ==
  /\ listCmd.state = "rejected"
  /\ cliCalls = <<CliCall("list", <<>>)>>
  /\ pc = "aborted"

\* C3: for a glob pattern the filter is built and accepts a name iff the
\* whole name matches the glob (`*` any run of characters, the rest literal).
C3_GlobWholeNameMatch ==
  IsGlob(fPattern) =>
    /\ fPc # "threw"
    /\ fPc = "tested" => (fAccepts <=> GlobMatches(fPattern, filterName(fApp)))

\* C4: the pattern `*` compiles, and a run with it dispatches a command for
\* every record that has an id, as a run with no pattern does.
C4_StarMatchesEverything ==
  pattern = <<"*">> =>
    /\ result.error # "syntax"
    /\ pc \in {"awaitAll", "completed"} => Len(LifecycleCalls) = Len(list) - Cardinality(NoIdIdx)

\* C5 as stated: with a regex-like pattern that does not compile, neither
\* the list command nor a start/stop command is ever invoked.
C5_InvalidPatternBeforeFetch ==
  InvalidRegexLike(pattern) => cliCalls = <<>>

\* C5 amended: with a regex-like pattern that does not compile, no start/stop
\* command is ever invoked and no summary is produced; the run fails with the
\* compilation error once the inventory fetch, which is invoked first, has
\* succeeded, and with the fetch error when the fetch fails.
C5_InvalidPatternBeforeDispatch ==
  InvalidRegexLike(pattern) =>
    /\ LifecycleCalls = <<>>
    /\ tasks = <<>>
    /\ pc \in {"call", "awaitList", "compile", "aborted"}
    /\ pc = "aborted" =>
         result = IF listCmd.state = "fulfilled" THEN Thrown("syntax") ELSE Thrown("fetch")
    /\ result.error = "syntax" => cliCalls = <<CliCall("list", <<>>)>>

\* C5 witness: the pattern `(` failed to compile after a non-empty inventory
\* with a usable record had been fetched.
C5_Witness ==
  /\ pattern = <<"(">>
  /\ result = Thrown("syntax")
  /\ \E i \in 1..Len(list) : Truthy(list[i].id)

\* C6: the filter is built only after the inventory has been fetched, a
\* start/stop command is invoked only after the filter has been built, and a
\* pattern that does not compile aborts the run with no command invoked.
C6_FetchCompileDispatchOrder ==
  /\ filter # Unset => listCmd.state = "fulfilled"
  /\ LifecycleCalls # <<>> =>
       /\ filter # Unset
       /\ Head(cliCalls) = CliCall("list", <<>>)
  /\ (DoesNotCompile(pattern) /\ pc \notin {"call", "awaitList", "compile"}) =>
       /\ pc = "aborted"
       /\ LifecycleCalls = <<>>
  /\ result.error = "syntax" => (LifecycleCalls = <<>> /\ filter = Unset)

\* C6 witness: a command was invoked, after the fetch and with a compiled
\* regular expression.
C6_Witness ==
  /\ LifecycleCalls # <<>>
  /\ filter # Unset
  /\ filter.kind = "regex"
  /\ listCmd.state = "fulfilled"

\* C7: with no pattern, matched is the size of the inventory minus the
\* records without an id; with any pattern, a record without an id is never
\* dispatched, has no outcome, and counts only in total.
C7_RecordsWithoutIdSkipped ==
  /\ (~Truthy(pattern) /\ pc = "completed") =>
       result.matched = Len(list) - Cardinality(NoIdIdx)
  /\ \A k \in 1..Len(cliCalls) : IsLifecycleCall(cliCalls[k]) => Truthy(cliCalls[k].appId)
  /\ \A k \in 1..Len(tasks) : Truthy(tasks[k].id)
  /\ Len(tasks) <= Len(list) - Cardinality(NoIdIdx)
  /\ pc = "completed" =>
       /\ result.total = Len(list)
       /\ \A k \in 1..Len(result.successes) : Truthy(result.successes[k].id)
       /\ \A k \in 1..Len(result.failures) : Truthy(result.failures[k].id)
       /\ Len(result.successes) + Len(result.failures) <= Len(list) - Cardinality(NoIdIdx)

\* C7 witness: a run with no pattern completed over an inventory holding a
\* record without an id and a record with one.
C7_Witness ==
  /\ ~Truthy(pattern)
  /\ pc = "completed"
  /\ NoIdIdx # {}
  /\ result.matched >= 1
  /\ result.total = result.matched + Cardinality(NoIdIdx)

\* C8: with the exact pattern `x`, a record that has id `x` and no name is
\* accepted (its id stands for its name) and a command is invoked for it.
C8_NameFallsBackToId ==
  (pattern = <<"x">> /\ pc \in {"awaitAll", "completed"}) =>
    \A i \in 1..Len(list) :
      (list[i].id = <<"x">> /\ ~Truthy(list[i].name)) =>
        \E k \in 1..Len(LifecycleCalls) : LifecycleCalls[k].appId = <<"x">>

\* C9: when the list command succeeds but its output does not parse, the run
\* does not complete: no summary is produced.
C9_ParseFailureAborts ==
  (listCmd.state = "fulfilled" /\ ~listCmd.stdout.parses) =>
    /\ pc # "completed"
    /\ result.kind # "summary"

\* C10: the summary is returned only once every dispatched command has
\* settled; while a command is pending the run has neither returned nor
\* aborted, whatever the other commands did, and the pending command can
\* still settle.
C10_SummaryAfterAllSettle ==
  /\ pc = "completed" =>
       /\ \A k \in 1..Len(tasks) : tasks[k].cmd # "pending"
       /\ Len(tasks) = Len(LifecycleCalls)
       /\ Len(result.successes) + Len(result.failures) = Len(LifecycleCalls)
  /\ pc = "aborted" => tasks = <<>>
  /\ (\E k \in 1..Len(tasks) : tasks[k].cmd = "pending") =>
       /\ ~Terminal
       /\ result = NoResult
       /\ pc = "awaitAll" => ENABLED Settle

\* C10 witness: one command has failed while another is still pending, and
\* the run has not returned.
C10_Witness ==
  /\ pc = "awaitAll"
  /\ \E j, k \in 1..Len(tasks) : tasks[j].cmd = "rejected" /\ tasks[k].cmd = "pending"
  /\ result = NoResult

----------------------------------------------------------------------------
(* C11..C20 *)

\* The ids of the records of `l` that have an id, in order.
RECURSIVE IdsOf(_)
IdsOf(l) ==
  IF l = <<>> THEN <<>>
  ELSE (IF Truthy(Head(l).id) THEN <<Head(l).id>> ELSE <<>>) \o IdsOf(Tail(l))

CallIds(calls) == [k \in 1..Len(calls) |-> calls[k].appId]

\* C11: start-apps reads an optional `--app <pattern>` and runs a Start over
\* the inventory with it: when it has ended it has fetched the inventory with
\* startMatching and the pattern of its command line, and a run that
\* completed with no pattern dispatched a start for every record with an id.
C11_StartAppsTakesPattern ==
  (command = "start-apps" /\ exited) =>
    /\ cliCalls # <<>>
    /\ pattern = parseArgs(argv).pattern
    /\ result.error # "load"
    /\ (pc = "completed" /\ ~Truthy(pattern)) => CallIds(LifecycleCalls) = IdsOf(list)

\* C12: stop-apps (the version that calls stopMatching) exits non-zero iff
\* the run aborted, which happens only on a fetch or compile failure; a
\* completed run exits 0 and prints its summary, failures or not.
C12_StopAppsExitCode ==
  (script = StopAppsMatching /\ exited) =>
    /\ exitCode # 0 <=> pc = "aborted"
    /\ pc = "aborted" => (result.error \in {"fetch", "syntax"} /\ printed = NoResult)
    /\ pc = "completed" =>
         /\ exitCode = 0
         /\ result.kind = "summary"
         /\ printed = result

\* C12 witness: stop-apps has exited with 0 after printing a summary that
\* holds a failure.
C12_Witness ==
  /\ script = StopAppsMatching
  /\ variant = "concurrent"
  /\ exited
  /\ exitCode = 0
  /\ printed.kind = "summary"
  /\ printed.failures # <<>>

\* The command line holds `--app`, and every `--app` in it is the last
\* argument or is followed by an empty value.
OnlyValuelessFlags(args) ==
  /\ \E i \in 1..Len(args) : args[i] = AppFlag
  /\ \A i \in 1..Len(args) :
       args[i] = AppFlag => (i = Len(args) \/ args[i + 1] = <<>>)

\* C20: in stop-apps (the version with parseArgs) a `--app` that is last or followed by an empty value
\* leaves the pattern null (a value given by an earlier `--app` stays): the
\* run builds the match-all filter, does not fail on the pattern, and a
\* completed run has issued one stop per record with an id, in order.
C20_ValuelessAppFlagStopsAll ==
  (script = StopAppsMatching /\ pc # "main") =>
    /\ OnlyValuelessFlags(argv) =>
         /\ pattern = <<>>
         /\ filter # Unset => filter.kind = "all"
         /\ result.error # "syntax"
         /\ pc = "completed" =>
              /\ CallIds(LifecycleCalls) = IdsOf(list)
              /\ \A k \in 1..Len(LifecycleCalls) : LifecycleCalls[k].cmd = "stop"
              /\ result.matched = Len(IdsOf(list))
    /\ argv = <<AppFlag, <<"a">>, AppFlag>> => pattern = <<"a">>

\* C20 witness: stop-apps given `--app` alone, or `--app ""`, has completed
\* a run that stopped two applications.
C20_Witness ==
  /\ script = StopAppsMatching
  /\ argv \in {<<AppFlag>>, <<AppFlag, <<>>>>}
  /\ exited
  /\ pc = "completed"
  /\ Len(LifecycleCalls) >= 2

\* A record the loop dispatches, once the filter is built.
IsCandidateRecord(app) == isCandidate(filter, app)

\* The candidates of the inventory among its first n records, in order.
CandidatesUpTo(n) == SelectSeq(SubSeq(list, 1, n), IsCandidateRecord)

\* The commands the loop has issued when it stands at idx: one per candidate
\* among the records before idx.
CandidatesUpToCalls ==
  LET done == CandidatesUpTo(IF idx > Len(list) THEN Len(list) ELSE idx - 1)
  IN [k \in 1..Len(done) |-> CliCall(op, done[k].id)]

\* The outcomes with the given status in dispatch order, and in the order
\* the commands completed.
ByDispatch(status) ==
  LET Has(t) == t.cmd = status
  IN OutcomesOf(SelectSeq(tasks, Has))

ByCompletion(status) ==
  LET settled == [k \in 1..Len(settleOrder) |-> tasks[settleOrder[k]]]
      Has(t) == t.cmd = status
  IN OutcomesOf(SelectSeq(settled, Has))

\* C13: whatever the order in which the commands completed, the tasks are in
\* the order of the candidates in the inventory, and the successes and the
\* failures of the summary are each in that dispatch order.
C13_ListsInDispatchOrder ==
  pc = "completed" =>
    /\ Len(tasks) = Len(CandidatesUpTo(Len(list)))
    /\ \A k \in 1..Len(tasks) : tasks[k].id = CandidatesUpTo(Len(list))[k].id
    /\ result.successes = ByDispatch("fulfilled")
    /\ result.failures = ByDispatch("rejected")

\* C13 witness: a completed run in which the commands completed in another
\* order than they were dispatched, for the successes and for the failures.
C13_Witness ==
  /\ pc = "completed"
  /\ \/ /\ ByCompletion("fulfilled") # ByDispatch("fulfilled")
        /\ result.successes = ByDispatch("fulfilled")
        /\ Len(result.successes) = 2
     \/ /\ ByCompletion("rejected") # ByDispatch("rejected")
        /\ result.failures = ByDispatch("rejected")
        /\ Len(result.failures) = 2

\* C14: the command of every candidate is issued in inventory order without
\* waiting for an earlier one: while the loop runs every dispatched command
\* is still in flight, and a command has settled only after the loop has
\* gone through the whole inventory and all candidates are dispatched.
C14_UngatedDispatch ==
  /\ pc \in {"loop", "awaitAll", "completed"} =>
       CallIds(LifecycleCalls) = CallIds(CandidatesUpToCalls)
  /\ pc = "loop" => \A k \in 1..Len(tasks) : tasks[k].cmd = "pending"
  /\ settleOrder # <<>> =>
       /\ idx > Len(list)
       /\ Len(tasks) = Cardinality(CandidateIdx)
       /\ Len(LifecycleCalls) = Cardinality(CandidateIdx)

\* C14 witness: an inventory of three candidates with all three commands in
\* flight at once.
C14_Witness ==
  /\ pc = "awaitAll"
  /\ Cardinality(CandidateIdx) = MaxApps
  /\ Len(tasks) = MaxApps
  /\ \A k \in 1..Len(tasks) : tasks[k].cmd = "pending"

\* C15: every candidate record is dispatched exactly once (one command and
\* one task per candidate, records with equal ids included), and in a summary
\* every task has exactly one outcome, in exactly one of the two lists:
\* matched = |successes| + |failures| = the number of candidates.
C15_OneOutcomePerCandidate ==
  /\ Len(LifecycleCalls) = Len(tasks)
  /\ \A k \in 1..Len(tasks) : LifecycleCalls[k] = CliCall(op, tasks[k].id)
  /\ pc \in {"awaitAll", "completed"} => Len(tasks) = Cardinality(CandidateIdx)
  /\ pc = "completed" =>
       /\ result.matched = Len(result.successes) + Len(result.failures)
       /\ result.matched = Cardinality(CandidateIdx)
       /\ Len(result.successes) = Cardinality({k \in 1..Len(tasks) : tasks[k].cmd = "fulfilled"})
       /\ Len(result.failures) = Cardinality({k \in 1..Len(tasks) : tasks[k].cmd = "rejected"})
       /\ \A k \in 1..Len(tasks) : tasks[k].cmd \in {"fulfilled", "rejected"}

\* C15 witness: a completed run over an inventory with two candidate records
\* of the same id, which got two commands and two outcomes.
C15_Witness ==
  /\ pc = "completed"
  /\ \E i, j \in CandidateIdx : i < j /\ list[i].id = list[j].id
  /\ \E k, m \in 1..Len(LifecycleCalls) : k < m /\ LifecycleCalls[k].appId = LifecycleCalls[m].appId
  /\ result.matched = Cardinality(CandidateIdx)
  /\ result.matched >= 2

EndsWith(name, suffix) ==
  /\ Len(name) >= Len(suffix)
  /\ SubSeq(name, Len(name) - Len(suffix) + 1, Len(name)) = suffix

\* C16: a pattern holding one of ^ $ | + ? ( ) [ ] \ is compiled as it is,
\* unanchored, and the filter tests the name with it: `.*-prod$` accepts
\* exactly the names ending in `-prod`, `a$` the names ending in `a` (not
\* only the name `a`), and `a?` every name (`?` is the regex quantifier, not
\* the glob's "one character").
C16_RegexLikeUnanchored ==
  (looksLikeRegex(fPattern) /\ fPc \in {"built", "tested"}) =>
    /\ fFilter = RegexFilter(RegExpParse(fPattern), FALSE)
    /\ fPc = "tested" =>
         /\ fAccepts <=> RegExpTest(RegExpParse(fPattern), filterName(fApp))
         /\ fPattern = Str_prod_regex =>
              (fAccepts <=> EndsWith(filterName(fApp), <<"-", "p", "r", "o", "d">>))
         /\ fPattern = <<"a", "$">> => (fAccepts <=> EndsWith(filterName(fApp), <<"a">>))
         /\ fPattern = <<"a", "?">> => fAccepts

\* C16 witness: `a?` has been built and has accepted the name `b`, which the
\* glob reading (an `a` and one more character) would reject.
C16_Witness ==
  /\ fPc = "tested"
  /\ fPattern = <<"a", "?">>
  /\ filterName(fApp) = <<"b">>
  /\ fAccepts

\* What a run's state says about how it ended: nothing before the end; an
\* abort only from the fetch or the compilation, with no command dispatched;
\* a completion with one summary.
OneTerminalState ==
  /\ ~Terminal => result = NoResult
  /\ pc = "aborted" =>
       /\ result.kind = "error"
       /\ result.error \in {"fetch", "syntax"}
       /\ tasks = <<>>
       /\ LifecycleCalls = <<>>
  /\ pc = "completed" =>
       /\ result.kind = "summary"
       /\ listCmd.state = "fulfilled"
       /\ filter # Unset

\* C17: every run ends in exactly one terminal state, Aborted (from a fetch
\* or compile failure only, never after a dispatch) or Completed with one
\* summary, which it never leaves; and when the list command and every
\* dispatched command eventually settle, the run reaches it.
C17_RunReachesOneTerminalState ==
  /\ []OneTerminalState
  /\ [][Terminal => (pc' = pc /\ result' = result)]_vars
  /\ <>Terminal

\* C17 witness: a run that completed after every one of its three commands
\* had settled.
C17_Witness ==
  /\ pc = "completed"
  /\ Len(settleOrder) = MaxApps
  /\ result.kind = "summary"

\* What a matcher compiled for this record alone answers.
FreshAccepts(app) == filterFn(buildAppNameFilter(pattern), app)

IsFreshCandidate(app) == Truthy(app.id) /\ FreshAccepts(app)

\* The commands of a call whose loop has gone through the first n records,
\* if every record is judged by a matcher that has judged nothing before.
FreshCalls(n) ==
  LET picked == SelectSeq(SubSeq(list, 1, n), IsFreshCandidate)
  IN [k \in 1..Len(picked) |-> CliCall(op, picked[k].id)]

\* C18: the compiled matcher carries no state from one evaluation to the
\* next (its lastIndex is 0 after every test, and at every point of the loop
\* the commands issued are those a fresh matcher would pick record by
\* record, one task each), nor from one call to the next: a second call with the same
\* inventory and the same pattern issues the commands of the first call,
\* same ids in the same order, whatever the commands of the first call did
\* and in whatever order they completed.
C18_SecondRunDispatchesSame ==
  /\ (filter # Unset /\ filter.kind = "regex") => filter.lastIndex = 0
  /\ pc \in {"loop", "awaitAll", "completed"} =>
       /\ LifecycleCalls = FreshCalls(IF idx > Len(list) THEN Len(list) ELSE idx - 1)
       /\ Len(tasks) = Len(LifecycleCalls)
       /\ \A k \in 1..Len(tasks) : tasks[k].id = LifecycleCalls[k].appId
  /\ run = 2 =>
       /\ Len(LifecycleCalls) <= Len(prev.cliCalls)
       /\ LifecycleCalls = SubSeq(prev.cliCalls, 1, Len(LifecycleCalls))
       /\ pc \in {"awaitAll", "completed"} => LifecycleCalls = prev.cliCalls
       /\ pc = "aborted" => prev.cliCalls = <<>>

\* C18 witness: a second call with a compiled pattern has completed after
\* its matcher accepted two or more records one after the other and it issued
\* the same commands as the first call, whose tasks had settled both ways.
C18_Witness ==
  /\ run = 2
  /\ pc = "completed"
  /\ filter.kind = "regex"
  /\ Len(LifecycleCalls) >= 2
  /\ LifecycleCalls = prev.cliCalls
  /\ \E k \in 1..Len(tasks) : tasks[k].cmd = "rejected"

\* The id and name of each record of a failures list.
WhoFailed(fs) == [k \in 1..Len(fs) |-> <<fs[k].id, fs[k].name>>]

\* C19: run on the same inventory, pattern and command outcomes, the
\* sequential variant issues the commands of the concurrent one, same ids in
\* the same order, and ends as it did: same error, or same total, same
\* matched and failures for the same records in the same order.  It has at
\* most one command in flight, and issues the next only once that has settled.
C19_SequentialAgreesWithConcurrent ==
  variant = "sequential" =>
    /\ Len(LifecycleCalls) <= Len(prev.cliCalls)
    /\ LifecycleCalls = SubSeq(prev.cliCalls, 1, Len(LifecycleCalls))
    /\ Len(LifecycleCalls) - Len(settleOrder) = (IF pc = "awaitCmd" THEN 1 ELSE 0)
    /\ matched = Len(LifecycleCalls)
    /\ pc = "aborted" => result = prev.result
    /\ pc = "completed" =>
         /\ LifecycleCalls = prev.cliCalls
         /\ prev.result.kind = "summary"
         /\ result.total = prev.result.total
         /\ result.matched = prev.result.matched
         /\ WhoFailed(result.failures) = WhoFailed(prev.result.failures)

\* C19 witness: the sequential variant has completed after three commands,
\* two of which failed, as in the concurrent call before it.
C19_Witness ==
  /\ variant = "sequential"
  /\ pc = "completed"
  /\ result.matched = 3
  /\ Len(result.failures) = 2
  /\ Len(prev.result.successes) = 1

====
